---------------------------- MODULE Spec2Model ----------------------------
(***************************************************************************)
(* User Management API (src/main.py): a FastAPI service over a MongoDB     *)
(* collection `users` with a unique index on `email`.                      *)
(*                                                                         *)
(* Strings are sequences of Unicode code points, so that the name pattern  *)
(* and the $regex search are computed character by character.              *)
(*                                                                         *)
(* Spec:       create, get, update and delete handlers running             *)
(*             concurrently; create and update take two steps, the write   *)
(*             and the re-read for the response.                           *)
(* SpecCreate: create handlers alone on an empty collection, with the      *)
(*             outcomes per email counted.                                 *)
(* SpecList:   list requests over a collection nothing changes.            *)
(***************************************************************************)
EXTENDS Integers, Sequences, FiniteSets, TLC

\* ------------------------------------------------------------------ bounds
\* Concurrent request handlers.
NClients == 2
\* The last ObjectId the store hands out: then the model stops inserting.
MaxIds == 2
\* Requests served before the model stops accepting new ones.
MaxReq == 2
\* Documents of a store drawn for the list queries.
MaxDocs == 3

\* ------------------------------------------------------- program constants
MinNameLen == 2
MaxNameLen == 80
MinAge == 0
MinPage == 1
MinLimit == 1
MaxLimit == 100

\* ------------------------------------------------------------- characters
Whitespace == {9, 10, 11, 12, 13, 28, 29, 30, 31, 32, 133, 160}

\* The character class [a-zA-ZÀ-ÿ\s] of the name pattern: the range À-ÿ is
\* U+00C0..U+00FF, every code point of it.
NameClass(c) ==
    \/ c \in 97..122
    \/ c \in 65..90
    \/ c \in 192..255
    \/ c \in Whitespace

\* re.match(r'^[a-zA-ZÀ-ÿ\s]+$', v): one or more characters, all of the class.
NamePatternMatches(v) ==
    /\ Len(v) >= 1
    /\ \A i \in 1..Len(v) : NameClass(v[i])

\* Field(min_length=2, max_length=80)
NameLengthOk(v) == Len(v) >= MinNameLen /\ Len(v) <= MaxNameLen

\* EmailStr: one "@" with a non-empty local part and a dotted domain.
EmailStrOk(e) ==
    /\ Cardinality({i \in 1..Len(e) : e[i] = 64}) = 1
    /\ LET at == CHOOSE i \in 1..Len(e) : e[i] = 64
       IN  /\ at > 1
           /\ \E d \in (at + 2)..(Len(e) - 1) : e[d] = 46

\* Field(..., ge=0)
AgeOk(a) == a >= MinAge

FieldOk(k, v) ==
    CASE k = "name"      -> NamePatternMatches(v) /\ NameLengthOk(v)
      [] k = "email"     -> EmailStrOk(v)
      [] k = "age"       -> AgeOk(v)
      [] k = "is_active" -> v \in BOOLEAN

\* ---------------------------------------------------------------- payloads
\* A request body is a function from the fields the caller supplied to an
\* optional value: <<>> is JSON null, <<v>> the value v.
Supplied(body) == {k \in DOMAIN body : body[k] # <<>>}

\* UserCreate: name, email and age required, is_active optional; no field
\* accepts null.
UserCreateOk(body) ==
    /\ {"name", "email", "age"} \subseteq DOMAIN body
    /\ \A k \in DOMAIN body : body[k] # <<>> /\ FieldOk(k, body[k][1])

\* Mutant of CreateDump: is_active defaults to False.
CreateDumpInactive(body) ==
    [name      |-> body["name"][1],
     email     |-> body["email"][1],
     age       |-> body["age"][1],
     is_active |-> IF "is_active" \in DOMAIN body THEN body["is_active"][1] ELSE FALSE]

\* user.model_dump() of a validated UserCreate: is_active defaults to True.
CreateDump(body) ==
    [name      |-> body["name"][1],
     email     |-> body["email"][1],
     age       |-> body["age"][1],
     is_active |-> IF "is_active" \in DOMAIN body THEN body["is_active"][1] ELSE TRUE]

\* UserUpdate: every field optional; a supplied non-null value is validated.
UserUpdateOk(body) == \A k \in Supplied(body) : FieldOk(k, body[k][1])

\* {k: v for k, v in model_dump(exclude_unset=True).items() if v is not None}
UpdateData(body) == [k \in Supplied(body) |-> body[k][1]]

\* ------------------------------------------------------------- identifiers
\* An external identifier: hex says the string is 24 hex digits, n is the
\* ObjectId it then denotes.
ObjectIdIsValid(raw) == raw.hex

ObjectIdOf(raw) == raw.n

\* str(user["_id"])
StrOfObjectId(oid) == [hex |-> TRUE, n |-> oid]

\* user_to_dict: "_id" renamed to "id" as a string, None for no document.
UserToDict(oid, doc) ==
    [id        |-> StrOfObjectId(oid),
     name      |-> doc.name,
     email     |-> doc.email,
     age       |-> doc.age,
     is_active |-> doc.is_active]

\* ------------------------------------------------------------------- state
VARIABLES
    users,      \* the collection: _id -> document, for the live documents
    nextId,     \* the next ObjectId the store assigns
    pc,         \* per handler: "idle", "create_reread" or "update_reread"
    inflight,   \* per handler: what it holds between its write and its re-read
    last,       \* the response sent most recently
    nreq,       \* requests accepted so far
    returned,   \* _id -> resource a create returned, until updated or deleted
    removed,    \* _ids deleted so far
    query,      \* the filter and limit of the list requests
    pages,      \* page -> the response to that page, for that filter and limit
    tally       \* email -> the creates of that email: accepted, 201s, 409s

vars ==
    <<users, nextId, pc, inflight, last, nreq, returned, removed, query, pages, tally>>

Clients == 1..NClients

\* id: the _id written; body: the creation body; clean: no update has been
\* applied to that _id since the insert.
Idle == [id |-> 0, body |-> <<>>, clean |-> TRUE]

NoResponse ==
    [op |-> "none", id |-> [hex |-> FALSE, n |-> 0], status |-> 0,
     body |-> <<>>, err |-> "", written |-> FALSE]

Response(op, raw, status, body, err, written) ==
    [op |-> op, id |-> raw, status |-> status, body |-> body, err |-> err,
     written |-> written]

\* raise HTTPException(status_code=status, ...)
HttpError(op, raw, status) == Response(op, raw, status, <<>>, "HTTPException", FALSE)

\* Mutant of DuplicateKey: a collection without the unique index.
DuplicateKeyNoIndex(email, except) == FALSE

\* The unique index on email (startup_event): the store rejects a write that
\* would give two documents the same email.
DuplicateKey(email, except) ==
    \E o \in DOMAIN users : o # except /\ users[o].email = email

NoQuery == [q |-> <<>>, min_age |-> <<>>, max_age |-> <<>>, is_active |-> <<>>, limit |-> <<>>]

\* A document the collection holds when the service starts.
SeedDoc(k) ==
    [name      |-> IF k % 2 = 1 THEN <<65, 108>> ELSE <<66, 111>>,
     email     |-> <<96 + k, 64, 98, 46, 99>>,
     age       |-> IF k % 2 = 1 THEN 30 ELSE 0,
     is_active |-> k % 2 = 1]

\* The service starts on an empty collection or on one that earlier runs
\* filled; the unique index is in place (startup_event).
Init ==
    /\ users \in {[k \in 1..n |-> SeedDoc(k)] : n \in 0..(MaxIds - 1)}
    /\ nextId = Cardinality(DOMAIN users) + 1
    /\ pc = [c \in Clients |-> "idle"]
    /\ inflight = [c \in Clients |-> Idle]
    /\ last = NoResponse
    /\ nreq = 0
    /\ returned = <<>>
    /\ removed = {}
    /\ query = NoQuery
    /\ pages = <<>>
    /\ tally = <<>>

\* -------------------------------------------------------------- operations
Accept(c) ==
    /\ pc[c] = "idle"
    /\ nreq < MaxReq
    /\ nreq' = nreq + 1

Insert(f, k, v) == [x \in DOMAIN f \cup {k} |-> IF x = k THEN v ELSE f[x]]

Remove(f, k) == [x \in DOMAIN f \ {k} |-> f[x]]

\* POST /users up to insert_one (lines 83-87) and its except branch.
CreateUser(c, body) ==
    /\ Accept(c)
    /\ IF ~UserCreateOk(body)
       THEN /\ last' = Response("create", NoResponse.id, 422, <<>>, "RequestValidationError", FALSE)
            /\ UNCHANGED <<users, nextId, pc, inflight, returned>>
       ELSE IF DuplicateKey(CreateDump(body).email, 0)
       THEN /\ last' = HttpError("create", NoResponse.id, 409)
            /\ UNCHANGED <<users, nextId, pc, inflight, returned>>
       ELSE /\ nextId <= MaxIds
            /\ users' = Insert(users, nextId, CreateDump(body))
            /\ nextId' = nextId + 1
            /\ pc' = [pc EXCEPT ![c] = "create_reread"]
            /\ inflight' = [inflight EXCEPT ![c] =
                   [id |-> nextId, body |-> body, clean |-> TRUE]]
            /\ UNCHANGED <<last, returned>>
    /\ UNCHANGED <<removed, query, pages>>

\* find_one({"_id": result.inserted_id}) and user_to_dict (lines 88-89): no
\* document gives None, which is no UserResponse.
CreateReread(c) ==
    /\ pc[c] = "create_reread"
    /\ LET oid == inflight[c].id
       IN  IF oid \in DOMAIN users
           THEN /\ last' = Response("create", StrOfObjectId(oid), 201,
                                    <<UserToDict(oid, users[oid])>>, "", TRUE)
                /\ returned' = Insert(returned, oid, UserToDict(oid, users[oid]))
           ELSE /\ last' = Response("create", StrOfObjectId(oid), 500, <<>>,
                                    "ResponseValidationError", TRUE)
                /\ UNCHANGED returned
    /\ pc' = [pc EXCEPT ![c] = "idle"]
    /\ inflight' = [inflight EXCEPT ![c] = Idle]
    /\ UNCHANGED <<users, nextId, nreq, removed, query, pages>>


\* get_user_by_id, then GET /users/{user_id} (lines 65-72, 133-141).
GetUser(c, raw) ==
    /\ Accept(c)
    /\ last' = IF ~ObjectIdIsValid(raw) THEN HttpError("get", raw, 400)
               ELSE IF ObjectIdOf(raw) \notin DOMAIN users THEN HttpError("get", raw, 404)
               ELSE Response("get", raw, 200,
                             <<UserToDict(ObjectIdOf(raw), users[ObjectIdOf(raw)])>>, "", FALSE)
    /\ UNCHANGED <<users, nextId, pc, inflight, returned, removed, query, pages>>

\* Mutant of ApplySet: the update document replaces the matched one, the
\* fields it does not name falling back to empty values.
ApplySetReplacing(doc, data) ==
    [k \in DOMAIN doc |->
        IF k \in DOMAIN data THEN data[k]
        ELSE IF k = "age" THEN 0
        ELSE IF k = "is_active" THEN FALSE
        ELSE <<>>]

\* {"$set": update_data} applied to the matched document.
ApplySet(doc, data) ==
    [k \in DOMAIN doc |-> IF k \in DOMAIN data THEN data[k] ELSE doc[k]]

\* The status the except branch of update_user gives an exception raised in
\* its try block (lines 165-171): 409 for a duplicate key error, 500 for any
\* other, the HTTPException of line 161 included.
UpdateExceptStatus(duplicate) == IF duplicate THEN 409 ELSE 500

\* PUT /users/{user_id} up to update_one (lines 144-161) and its except branch.
UpdateUser(c, raw, body) ==
    /\ Accept(c)
    /\ IF ~UserUpdateOk(body)
       THEN /\ last' = Response("update", raw, 422, <<>>, "RequestValidationError", FALSE)
            /\ UNCHANGED <<users, pc, inflight, returned>>
       ELSE IF ~ObjectIdIsValid(raw) \/ Supplied(body) = {}
       THEN /\ last' = HttpError("update", raw, 400)
            /\ UNCHANGED <<users, pc, inflight, returned>>
       ELSE LET oid  == ObjectIdOf(raw)
                data == UpdateData(body)
            IN  IF oid \notin DOMAIN users
                THEN /\ last' = HttpError("update", raw, UpdateExceptStatus(FALSE))
                     /\ UNCHANGED <<users, pc, inflight, returned>>
                ELSE IF "email" \in DOMAIN data /\ DuplicateKey(data["email"], oid)
                THEN /\ last' = HttpError("update", raw, UpdateExceptStatus(TRUE))
                     /\ UNCHANGED <<users, pc, inflight, returned>>
                ELSE /\ users' = [users EXCEPT ![oid] = ApplySet(users[oid], data)]
                     /\ pc' = [pc EXCEPT ![c] = "update_reread"]
                     /\ inflight' = [d \in Clients |->
                            IF d = c THEN [id |-> oid, body |-> <<>>, clean |-> TRUE]
                            ELSE IF pc[d] = "create_reread" /\ inflight[d].id = oid
                            THEN [inflight[d] EXCEPT !.clean = FALSE]
                            ELSE inflight[d]]
                     /\ returned' = Remove(returned, oid)
                     /\ UNCHANGED last
    /\ UNCHANGED <<nextId, removed, query, pages>>

\* get_user_by_id(user_id) and user_to_dict (lines 163-164).
UpdateReread(c) ==
    /\ pc[c] = "update_reread"
    /\ LET oid == inflight[c].id
       IN  last' = IF oid \in DOMAIN users
                   THEN Response("update", StrOfObjectId(oid), 200,
                                 <<UserToDict(oid, users[oid])>>, "", TRUE)
                   ELSE Response("update", StrOfObjectId(oid), 500, <<>>,
                                 "ResponseValidationError", TRUE)
    /\ pc' = [pc EXCEPT ![c] = "idle"]
    /\ inflight' = [inflight EXCEPT ![c] = Idle]
    /\ UNCHANGED <<users, nextId, nreq, returned, removed, query, pages>>

\* Mutant of DeleteOne: nothing is removed.
DeleteOneKeeping(oid) == users

\* delete_one({"_id": ObjectId(user_id)})
DeleteOne(oid) == Remove(users, oid)

\* DELETE /users/{user_id} (lines 174-183).
DeleteUser(c, raw) ==
    /\ Accept(c)
    /\ IF ~ObjectIdIsValid(raw)
       THEN /\ last' = HttpError("delete", raw, 400)
            /\ UNCHANGED <<users, returned, removed>>
       ELSE IF ObjectIdOf(raw) \notin DOMAIN users
       THEN /\ last' = HttpError("delete", raw, 404)
            /\ UNCHANGED <<users, returned, removed>>
       ELSE /\ users' = DeleteOne(ObjectIdOf(raw))
            /\ last' = Response("delete", raw, 204, <<>>, "", FALSE)
            /\ returned' = Remove(returned, ObjectIdOf(raw))
            /\ removed' = removed \cup {ObjectIdOf(raw)}
    /\ UNCHANGED <<nextId, pc, inflight, query, pages>>

\* --------------------------------------------------------------- listing
\* Case folding of option "i", over the Latin-1 code points.
Lower(ch) ==
    IF ch \in 65..90 \/ (ch \in 192..222 /\ ch # 215) THEN ch + 32 ELSE ch

\* One pattern character against one subject character: "." (46) is the
\* wildcard of the regular expression, anything but a line feed; every other
\* character of the patterns used here is a literal.
RegexCharMatches(pch, ch) ==
    IF pch = 46 THEN ch # 10 ELSE Lower(pch) = Lower(ch)

\* {"$regex": q, "$options": "i"}: an unanchored search of the pattern q, for
\* patterns made of literals and ".".
RegexSearch(pattern, subject) ==
    \E off \in 0..(Len(subject) - Len(pattern)) :
        \A i \in 1..Len(pattern) : RegexCharMatches(pattern[i], subject[off + i])

\* filter_query of get_users (lines 108-121) applied to one document. A
\* parameter is <<>> when not given; "if q:" also skips the empty string.
MatchesFilter(doc, q, min_age, max_age, is_active) ==
    /\ (q # <<>> /\ q[1] # <<>>) => RegexSearch(q[1], doc.name)
    /\ min_age # <<>> => doc.age >= min_age[1]
    /\ max_age # <<>> => doc.age <= max_age[1]
    /\ is_active # <<>> => doc.is_active = is_active[1]

\* Strings compared code point by code point (the store's binary order).
RECURSIVE StrLeq(_, _)
StrLeq(s, t) ==
    IF s = <<>> THEN TRUE
    ELSE IF t = <<>> THEN FALSE
    ELSE IF s[1] # t[1] THEN s[1] < t[1]
    ELSE StrLeq(Tail(s), Tail(t))

Orders(S) ==
    {o \in [1..Cardinality(S) -> S] : \A i, j \in DOMAIN o : i # j => o[i] # o[j]}

\* .sort("name", 1): the orders of the _ids S a sort on name alone may give;
\* documents of equal name come in any order.
SortByName(S) ==
    {o \in Orders(S) :
        \A i, j \in DOMAIN o : i < j => StrLeq(users[o[i]].name, users[o[j]].name)}

\* .skip(skip).limit(limit) of an ordered result.
SkipLimit(o, skip, limit) ==
    SubSeq(o, skip + 1, IF skip + limit < Len(o) THEN skip + limit ELSE Len(o))

\* Query(...) constraints of the parameters (lines 101-105).
ListParamsOk(min_age, max_age, page, limit) ==
    /\ min_age # <<>> => min_age[1] >= MinAge
    /\ max_age # <<>> => max_age[1] >= MinAge
    /\ page >= MinPage
    /\ limit >= MinLimit /\ limit <= MaxLimit

\* GET /users (lines 99-130). The responses to the pages of one filter and
\* limit are kept in pages; another filter or limit starts afresh.
GetUsers(c, q, min_age, max_age, is_active, page, limit) ==
    /\ pc[c] = "idle"
    /\ IF ~ListParamsOk(min_age, max_age, page, limit)
       THEN /\ last' = Response("list", NoResponse.id, 422, <<>>, "RequestValidationError", FALSE)
            /\ UNCHANGED <<query, pages>>
       ELSE LET asked == [q |-> q, min_age |-> min_age, max_age |-> max_age,
                          is_active |-> is_active, limit |-> <<limit>>]
                found == {o \in DOMAIN users :
                             MatchesFilter(users[o], q, min_age, max_age, is_active)}
            IN  \E o \in SortByName(found) :
                  LET body == [i \in DOMAIN SkipLimit(o, (page - 1) * limit, limit) |->
                                 UserToDict(SkipLimit(o, (page - 1) * limit, limit)[i],
                                            users[SkipLimit(o, (page - 1) * limit, limit)[i]])]
                  IN  /\ last' = Response("list", NoResponse.id, 200, body, "", FALSE)
                      /\ query' = asked
                      /\ pages' = IF asked = query THEN Insert(pages, page, body)
                                  ELSE Insert(<<>>, page, body)
    /\ UNCHANGED <<users, nextId, pc, inflight, nreq, returned, removed>>

\* ------------------------------------------------------------------ inputs
Al == <<65, 108>>
Bo == <<66, 111>>
MulDiv == <<215, 247>>
A1 == <<65, 49>>
TooShort == <<65>>
TooLong == [i \in 1..(MaxNameLen + 1) |-> 97]

EmailA == <<97, 64, 98, 46, 99>>
EmailB == <<98, 64, 98, 46, 99>>
EmailBad == <<97, 98, 46, 99>>

\* The identifiers of the requests: the ObjectIds the store may hold (the
\* last of them is in no store the service starts on) and a malformed one.
RawIds == {[hex |-> TRUE, n |-> k] : k \in 1..MaxIds} \cup {NoResponse.id}

\* Creation bodies: four valid ones, then one violation of each constraint.
CreateBodies ==
    {[name |-> <<Al>>, email |-> <<EmailA>>, age |-> <<30>>],
     [name |-> <<Al>>, email |-> <<EmailB>>, age |-> <<30>>],
     [name |-> <<Bo>>, email |-> <<EmailA>>, age |-> <<0>>, is_active |-> <<FALSE>>],
     [name |-> <<MulDiv>>, email |-> <<EmailB>>, age |-> <<30>>, is_active |-> <<TRUE>>],
     [name |-> <<A1>>, email |-> <<EmailA>>, age |-> <<30>>],
     [name |-> <<TooShort>>, email |-> <<EmailA>>, age |-> <<30>>],
     [name |-> <<TooLong>>, email |-> <<EmailA>>, age |-> <<30>>],
     [name |-> <<Al>>, email |-> <<EmailBad>>, age |-> <<30>>],
     [name |-> <<Al>>, email |-> <<EmailA>>, age |-> <<-1>>],
     [name |-> <<Al>>, email |-> <<EmailA>>],
     [name |-> <<Al>>, email |-> <<EmailA>>, age |-> <<>>],
     [name |-> <<Al>>, email |-> <<EmailA>>, age |-> <<30>>, is_active |-> <<>>]}

\* Update bodies: the empty ones, one per field, a mixed one, then one
\* violation of each constraint.
UpdateBodies ==
    {<<>>,
     [name |-> <<>>],
     [name |-> <<Bo>>],
     [email |-> <<EmailB>>],
     [age |-> <<0>>],
     [is_active |-> <<FALSE>>],
     [name |-> <<>>, email |-> <<EmailA>>, age |-> <<0>>, is_active |-> <<>>],
     [name |-> <<A1>>],
     [name |-> <<TooShort>>],
     [email |-> <<EmailBad>>],
     [age |-> <<-1>>]}

\* Stores for the list requests: MaxDocs or fewer documents of valid fields
\* and distinct emails.
EmailOf(k) == <<96 + k, 64, 98, 46, 99>>

ListDocs(k) ==
    {[name |-> n, email |-> EmailOf(k), age |-> x[1], is_active |-> x[2]] :
        n \in {Al, Bo}, x \in {<<17, TRUE>>, <<25, TRUE>>, <<25, FALSE>>}}

ListStores ==
    UNION {{f \in [1..n -> UNION {ListDocs(k) : k \in 1..n}] :
               \A k \in 1..n : f[k] \in ListDocs(k)} : n \in 0..MaxDocs}

\* The filters and limits of the list requests: no search text, "a" and ".".
ListQueries ==
    [q : {<<>>, << <<97>> >>, << <<46>> >>}, min_age : {<<>>, <<18>>},
     max_age : {<<>>, <<20>>}, is_active : {<<>>, <<TRUE>>}, limit : {<<1>>, <<2>>}]

PageNumbers == {0, 1, 2}

\* The create, get, update and delete requests of concurrent handlers. (The
\* list requests change nothing these read; they are checked by SpecList.)
Next ==
    \E c \in Clients :
        \/ \E body \in CreateBodies : CreateUser(c, body) /\ UNCHANGED tally
        \/ CreateReread(c) /\ UNCHANGED tally
        \/ \E raw \in RawIds : GetUser(c, raw) /\ UNCHANGED tally
        \/ \E raw \in RawIds, body \in UpdateBodies :
              UpdateUser(c, raw, body) /\ UNCHANGED tally
        \/ UpdateReread(c) /\ UNCHANGED tally
        \/ \E raw \in RawIds : DeleteUser(c, raw) /\ UNCHANGED tally

Spec == Init /\ [][Next]_vars

\* Create requests alone, on a collection that starts empty, with the
\* outcomes of the creates of each email counted.
NoTally == [accepted |-> 0, created |-> 0, conflict |-> 0]

TallyOf(email) == IF email \in DOMAIN tally THEN tally[email] ELSE NoTally

\* A valid create is accepted; it is answered at once only with 409.
CountCreate(c, body) ==
    tally' =
        IF UserCreateOk(body)
        THEN Insert(tally, body["email"][1],
                    [TallyOf(body["email"][1]) EXCEPT
                        !.accepted = @ + 1,
                        !.conflict = @ + (IF pc'[c] = "idle" /\ last'.status = 409
                                          THEN 1 ELSE 0)])
        ELSE tally

CountReread(c) ==
    tally' =
        Insert(tally, inflight[c].body["email"][1],
               [TallyOf(inflight[c].body["email"][1]) EXCEPT
                   !.created = @ + (IF last'.status = 201 THEN 1 ELSE 0)])

InitCreate == Init /\ users = <<>>

NextCreate ==
    \E c \in Clients :
        \/ \E body \in CreateBodies : CreateUser(c, body) /\ CountCreate(c, body)
        \/ CreateReread(c) /\ CountReread(c)

SpecCreate == InitCreate /\ [][NextCreate]_vars

\* The list requests over a store that no request changes.
InitList ==
    /\ users \in ListStores
    /\ nextId = Cardinality(DOMAIN users) + 1
    /\ pc = [c \in Clients |-> "idle"]
    /\ inflight = [c \in Clients |-> Idle]
    /\ last = NoResponse
    /\ nreq = 0
    /\ returned = <<>>
    /\ removed = {}
    /\ query \in ListQueries
    /\ pages = <<>>
    /\ tally = <<>>

NextList ==
    \E page \in PageNumbers :
        /\ GetUsers(1, query.q, query.min_age, query.max_age, query.is_active,
                    page, query.limit[1])
        /\ UNCHANGED tally

SpecList == InitList /\ [][NextList]_vars

\* ------------------------------------------------------------------ claims
Fields == {"name", "email", "age", "is_active"}

\* C1: an update with a well-formed identifier and a valid, non-empty field
\* set whose identifier matches no document answers 404 and leaves the store
\* unchanged.
C1_UpdateOfMissingIsNotFound ==
    [][\A c \in Clients, raw \in RawIds, body \in UpdateBodies :
          ( /\ ObjectIdIsValid(raw)
            /\ UserUpdateOk(body)
            /\ Supplied(body) # {}
            /\ ObjectIdOf(raw) \notin DOMAIN users
            /\ UpdateUser(c, raw, body) )
          => (last'.status = 404 /\ users' = users)]_vars

\* A step in which handler c accepts a request.
Accepts(c) == pc[c] = "idle" /\ nreq' = nreq + 1

\* What every step of handler c on a request of kind op does: it answers the
\* request, or it holds it for the re-read.
AnswersOrHolds(c, op) == last'.op = op \/ pc'[c] # "idle"

\* C2: no two persisted documents have the same email, under every
\* interleaving of the handlers; a create or an update that would give two
\* documents the same email answers 409 and changes no document.
C2_EmailUnique ==
    /\ [](\A o1, o2 \in DOMAIN users : users[o1].email = users[o2].email => o1 = o2)
    /\ [][\A c \in Clients : (Accepts(c) /\ AnswersOrHolds(c, "create")) =>
            \A body \in CreateBodies :
              ( /\ "email" \in DOMAIN body /\ body["email"] # <<>>
                /\ \E o \in DOMAIN users : users[o].email = body["email"][1]
                /\ UserCreateOk(body)
                /\ CreateUser(c, body) )
              => (last'.status = 409 /\ users' = users)]_vars
    /\ [][\A c \in Clients : (Accepts(c) /\ AnswersOrHolds(c, "update")) =>
            \A raw \in RawIds : (ObjectIdIsValid(raw) /\ ObjectIdOf(raw) \in DOMAIN users) =>
              \A body \in UpdateBodies :
                ( /\ "email" \in DOMAIN body /\ body["email"] # <<>>
                  /\ \E o \in DOMAIN users :
                        o # ObjectIdOf(raw) /\ users[o].email = body["email"][1]
                  /\ UserUpdateOk(body)
                  /\ UpdateUser(c, raw, body) )
                => (last'.status = 409 /\ users' = users)]_vars

\* An update was refused for its email, held by the other of two documents.
C2_Witness ==
    /\ last.op = "update"
    /\ last.status = 409
    /\ Cardinality(DOMAIN users) = 2

\* C3: of two creates of the same email on a collection that held no
\* document of that email, issued one after the other or interleaved, one
\* answers 201 and the other 409 (of more than two, one answers 201 and every
\* other 409).
C3_OneCreateWins ==
    \A email \in DOMAIN tally :
        ( /\ tally[email].accepted >= 2
          /\ \A c \in Clients :
                pc[c] = "create_reread" => inflight[c].body["email"][1] # email )
        => /\ tally[email].created = 1
           /\ tally[email].conflict = tally[email].accepted - 1

\* Two creates of one email were both answered: one 201, one 409.
C3_Witness ==
    \E email \in DOMAIN tally :
        /\ tally[email].accepted = 2
        /\ tally[email].created = 1
        /\ tally[email].conflict = 1

\* What a create of this body is to return, but for the id.
Expected(body) ==
    [name      |-> body["name"][1],
     email     |-> body["email"][1],
     age       |-> body["age"][1],
     is_active |-> IF "is_active" \in DOMAIN body THEN body["is_active"][1] ELSE TRUE]

SameFields(resource, doc) == \A k \in Fields : resource[k] = doc[k]

\* A get of an _id whose create answered 201, with no update or delete of it
\* since, answers the resource the create returned.
GetReturnsCreated ==
    \A c \in Clients : Accepts(c) =>
        \A raw \in RawIds :
            ( /\ ObjectIdIsValid(raw)
              /\ ObjectIdOf(raw) \in DOMAIN returned
              /\ GetUser(c, raw) )
            => (last'.status = 200 /\ last'.body = <<returned[ObjectIdOf(raw)]>>)

\* C4 as stated: a create that answers 201 returns a resource with a
\* non-empty id and the fields of its payload, and a later get of that id
\* returns the same resource.
C4_CreateReturnsPayload ==
    /\ [][\A c \in Clients :
             (CreateReread(c) /\ last'.status = 201)
             => /\ Len(last'.body) = 1
                /\ ObjectIdIsValid(last'.body[1].id)
                /\ last'.body[1].id = StrOfObjectId(inflight[c].id)
                /\ SameFields(last'.body[1], Expected(inflight[c].body))]_vars
    /\ [][GetReturnsCreated]_vars

\* C4 amended: the fields are those of the payload unless an update was
\* applied to the document between the insert and the handler's re-read.
C4_CreateReturnsPayloadUnlessUpdated ==
    /\ [][\A c \in Clients :
             (CreateReread(c) /\ last'.status = 201)
             => /\ Len(last'.body) = 1
                /\ ObjectIdIsValid(last'.body[1].id)
                /\ last'.body[1].id = StrOfObjectId(inflight[c].id)
                /\ inflight[c].clean
                      => SameFields(last'.body[1], Expected(inflight[c].body))]_vars
    /\ [][GetReturnsCreated]_vars

\* A get answered the resource that a create without is_active had returned.
C4_Witness ==
    /\ last.op = "get"
    /\ last.status = 200
    /\ ObjectIdOf(last.id) \in DOMAIN returned
    /\ last.body = <<returned[ObjectIdOf(last.id)]>>
    /\ last.body[1].is_active
    /\ last.body[1].name = Al

\* C5: a delete of an _id that matches no document answers 404 and leaves
\* the store unchanged; a delete of an existing one answers 204 and removes
\* it; a removed _id stays absent, so that a second delete of it and a get of
\* it answer 404.
C5_DeleteThenNotFound ==
    /\ [][\A c \in Clients : Accepts(c) => \A raw \in RawIds :
             (ObjectIdIsValid(raw) /\ DeleteUser(c, raw))
             => IF ObjectIdOf(raw) \in DOMAIN users
                THEN /\ last'.status = 204
                     /\ DOMAIN users' = DOMAIN users \ {ObjectIdOf(raw)}
                     /\ \A o \in DOMAIN users' : users'[o] = users[o]
                ELSE /\ last'.status = 404
                     /\ users' = users]_vars
    /\ [](\A o \in removed : o \notin DOMAIN users)
    /\ [][\A c \in Clients : Accepts(c) => \A raw \in RawIds :
             ( /\ ObjectIdIsValid(raw)
               /\ ObjectIdOf(raw) \in removed
               /\ (GetUser(c, raw) \/ DeleteUser(c, raw)) )
             => last'.status = 404]_vars

\* A second delete of a removed _id was answered 404.
C5_Witness ==
    /\ last.op = "delete"
    /\ last.status = 404
    /\ ObjectIdOf(last.id) \in removed

\* C7: an update that is applied sets the fields supplied with a non-null
\* value and nothing else: the other fields of the document, its _id, the
\* other documents and the number of documents are unchanged.
C7_UpdateSetsSuppliedOnly ==
    [][\A c \in Clients : (Accepts(c) /\ pc'[c] = "update_reread") =>
        \A raw \in RawIds, body \in UpdateBodies :
          UpdateUser(c, raw, body)
          => /\ DOMAIN users' = DOMAIN users
             /\ ObjectIdOf(raw) \in DOMAIN users
             /\ \A o \in DOMAIN users \ {ObjectIdOf(raw)} : users'[o] = users[o]
             /\ \A k \in Fields :
                   users'[ObjectIdOf(raw)][k] =
                       IF k \in DOMAIN body /\ body[k] # <<>>
                       THEN body[k][1]
                       ELSE users[ObjectIdOf(raw)][k]]_vars

\* An update of age alone, name and is_active given as null, was answered
\* with the document's own name and the new age.
C7_Witness ==
    /\ last.op = "update"
    /\ last.status = 200
    /\ last.body[1].name = Al
    /\ last.body[1].age = 0
    /\ last.body[1].is_active

\* A letter of the Latin-1 range: U+00D7 (multiplication sign) and U+00F7
\* (division sign) are not letters.
IsLetter(ch) ==
    \/ ch \in 65..90
    \/ ch \in 97..122
    \/ (ch \in 192..255 /\ ch \notin {215, 247})

\* C6: every persisted document has an _id, a name of 2 to 80 letters and
\* spaces, an integer age >= 0, an email and a boolean is_active.
C6_PersistedRecordsValid ==
    \A o \in DOMAIN users :
        /\ o >= 1
        /\ Len(users[o].name) >= 2 /\ Len(users[o].name) <= 80
        /\ \A i \in 1..Len(users[o].name) :
              IsLetter(users[o].name[i]) \/ users[o].name[i] \in Whitespace
        /\ users[o].age \in Int /\ users[o].age >= 0
        /\ EmailStrOk(users[o].email)
        /\ users[o].is_active \in BOOLEAN

\* name contains text, case-insensitively.
ContainsText(name, text) ==
    \E off \in 0..(Len(name) - Len(text)) :
        \A i \in 1..Len(text) : Lower(text[i]) = Lower(name[off + i])

\* The conjunction of the filters given in the query.
SatisfiesQuery(resource) ==
    /\ query.q # <<>> => ContainsText(resource.name, query.q[1])
    /\ query.min_age # <<>> => resource.age >= query.min_age[1]
    /\ query.max_age # <<>> => resource.age <= query.max_age[1]
    /\ query.is_active # <<>> => resource.is_active = query.is_active[1]

\* C8: a list response holds only records that satisfy every filter given
\* (name containing q case-insensitively), ordered by name ascending; an
\* empty result is an empty sequence.
C8_ListReturnsMatchesInOrder ==
    /\ \A p \in DOMAIN pages :
          /\ \A i \in DOMAIN pages[p] : SatisfiesQuery(pages[p][i])
          /\ \A i, j \in DOMAIN pages[p] :
                i < j => StrLeq(pages[p][i].name, pages[p][j].name)

\* The _ids of the documents the filter of the query matches.
Found ==
    {o \in DOMAIN users :
        MatchesFilter(users[o], query.q, query.min_age, query.max_age, query.is_active)}

Min(a, b) == IF a < b THEN a ELSE b

Max(a, b) == IF a > b THEN a ELSE b

PageIds(p) == [i \in DOMAIN pages[p] |-> ObjectIdOf(pages[p][i].id)]

\* C9: over an unchanging store, page p of limit l holds
\* min(l, max(0, N - (p-1)*l)) records, those at positions (p-1)*l .. of one
\* name-ascending ordering of the N matching records: two pages are disjoint,
\* also when names are shared.
C9_PagesCutOneOrdering ==
    LET l == query.limit[1]
        N == Cardinality(Found)
    IN  /\ \A p \in DOMAIN pages : Len(pages[p]) = Min(l, Max(0, N - (p - 1) * l))
        /\ \A p1, p2 \in DOMAIN pages :
              p1 # p2 =>
                  {PageIds(p1)[i] : i \in DOMAIN pages[p1]}
                      \cap {PageIds(p2)[i] : i \in DOMAIN pages[p2]} = {}
        /\ \E o \in SortByName(Found) :
              \A p \in DOMAIN pages : PageIds(p) = SkipLimit(o, (p - 1) * l, l)

\* C10: a create or update whose write succeeded answers 201 / 200 with the
\* mapped resource, never an unstructured internal failure.
C10_WrittenRequestAnswersResource ==
    last.written =>
        /\ last.status \in {200, 201}
        /\ last.err = ""
        /\ Len(last.body) = 1

=============================================================================
